---- MODULE Spec2Model ----
(***************************************************************************)
(* Poll lifecycle of alx-polly (app/lib/actions/poll-actions.ts): the      *)
(* server actions createPoll, getUserPolls, getPollById, submitVote,       *)
(* deletePoll and updatePoll over the "polls" and "votes" tables.          *)
(*                                                                         *)
(* A string is a sequence of one-character pieces (<<>> is "", <<" ">> is  *)
(* one blank); a message is a sequence of text pieces, so that joining     *)
(* messages with a separator is visible.  A nullable error is <<>> (null)  *)
(* or <<s>> (the string s).                                                *)
(*                                                                         *)
(* Each server action reads the session and then issues exactly one call   *)
(* to the store, so an action is one atomic step, taken at its store call. *)
(* last holds the arguments, the store calls, the revalidated paths and    *)
(* the result of the action that has run and not yet returned.             *)
(*                                                                         *)
(* The row-level security policy the comments of deletePoll rely on is     *)
(* configured in the store, outside this repository: whether it is in      *)
(* force (rls) is chosen freely at every deletePoll.                       *)
(*                                                                         *)
(* login and register (app/lib/actions/auth-actions.ts) validate their     *)
(* data and call the identity service, whose accounts are the variable     *)
(* accounts.                                                               *)
(***************************************************************************)
EXTENDS Integers, Sequences, FiniteSets, TLC

VARIABLES polls, votes, nextPollId, nextVoteId, accounts, last

vars ==
    <<polls, votes, nextPollId, nextVoteId, accounts, last>>

(* ------------------------------ bounds -------------------------------- *)

MaxPolls ==
    2

MaxVotes ==
    1

(* ------------------------------ inputs -------------------------------- *)

Null ==
    "null"

Users ==
    {"alice", "bob"}

Callers ==
    Users \cup {Null}

Str(piece) ==
    <<piece>>

FormDatas ==
    { [question |-> Str("a"), options |-> <<Str("a"), Str("b")>>],
      [question |-> Str("a"), options |-> <<Str("a"), <<>>, Str("b")>>],
      [question |-> Str("a"), options |-> <<Str("a"), Str(" ")>>],
      [question |-> Str("a"), options |-> <<Str("a"), <<>>>>],
      [question |-> Str(" "), options |-> <<Str("a"), Str("b")>>],
      [question |-> <<>>,     options |-> <<Str("a"), Str("b")>>],
      [question |-> <<>>,     options |-> <<Str("a"), <<>>>>] }

PollIds ==
    1..MaxPolls

OptionIndexes ==
    {0, 2}

NoForm ==
    [question |-> <<>>, options |-> <<>>]

(* ------------------------- strings and errors ------------------------- *)

NullErr ==
    <<>>

Err(s) ==
    <<s>>

RECURSIVE Join(_, _)
Join(msgs, sep) ==
    IF Len(msgs) = 0 THEN <<>>
    ELSE IF Len(msgs) = 1 THEN <<msgs[1]>>
    ELSE <<msgs[1], sep>> \o Join(Tail(msgs), sep)

(* formData.getAll("options").filter(Boolean): drops the empty strings *)
FilterBoolean(list) ==
    SelectSeq(list, LAMBDA s : s # <<>>)

(* ----------------------- validation (zod schema) ---------------------- *)

(* z.string().min(1, message) *)
StringMin1(s, message) ==
    IF Len(s) < 1 THEN <<message>> ELSE <<>>

RECURSIVE EachOption(_)
EachOption(list) ==
    IF Len(list) = 0 THEN <<>>
    ELSE StringMin1(list[1], "String must contain at least 1 character(s)")
            \o EachOption(Tail(list))

(* z.array(z.string().min(1)).min(2, message) *)
ArrayMin2(list, message) ==
    (IF Len(list) < 2 THEN <<message>> ELSE <<>>) \o EachOption(list)

(* pollSchema.safeParse({ question, options }) *)
SafeParse(question, options) ==
    LET errors == StringMin1(question, "Question cannot be empty.")
                    \o ArrayMin2(options, "At least two options are required.")
    IN  [success |-> errors = <<>>,
         data    |-> [question |-> question, options |-> options],
         errors  |-> errors]

(* validation.error.errors.map((e) => e.message).join("\\n") *)
ValidationError(validation) ==
    Err(Join(validation.errors, "\\n"))

(* --------------------------- identity (auth) -------------------------- *)

(* supabase.auth.getUser() of the request issued by caller *)
GetUser(caller) ==
    [user |-> caller, error |-> caller = Null]

NotLoggedInUnchecked(auth) ==
    FALSE

(* userError || !user *)
NotLoggedIn(auth) ==
    auth.error \/ auth.user = Null

(* ------------------------- store (query builder) ---------------------- *)

Matches(row, filter) ==
    \A col \in DOMAIN filter : row[col] = filter[col]

Insert(table, row) ==
    table \cup {row}

Select(table, filter) ==
    {r \in table : Matches(r, filter)}

Patch(row, patch) ==
    [col \in DOMAIN row |-> IF col \in DOMAIN patch THEN patch[col] ELSE row[col]]

Update(table, patch, filter) ==
    {IF Matches(r, filter) THEN Patch(r, patch) ELSE r : r \in table}

(* rls: the store's row-level policy on deletes (user_id = auth.uid()) is in force *)
Delete(table, filter, uid, rls) ==
    {r \in table : ~(Matches(r, filter) /\ (rls => r.user_id = uid))}

RECURSIVE OrderAsc(_)
OrderAsc(rows) ==
    IF rows = {} THEN <<>>
    ELSE LET oldest == CHOOSE r \in rows : \A o \in rows : r.created_at <= o.created_at
         IN  <<oldest>> \o OrderAsc(rows \ {oldest})

(* .order("created_at", { ascending: false }) *)
RECURSIVE OrderDesc(_)
OrderDesc(rows) ==
    IF rows = {} THEN <<>>
    ELSE LET newest == CHOOSE r \in rows : \A o \in rows : o.created_at <= r.created_at
         IN  <<newest>> \o OrderDesc(rows \ {newest})

(* .maybeSingle(): no row is not an error *)
SingleMaybe(rows) ==
    IF Cardinality(rows) = 1
    THEN [data |-> <<CHOOSE r \in rows : TRUE>>, error |-> FALSE]
    ELSE [data |-> <<>>, error |-> Cardinality(rows) > 1]

(* .single(): exactly one row, else an error *)
Single(rows) ==
    IF Cardinality(rows) = 1
    THEN [data |-> <<CHOOSE r \in rows : TRUE>>, error |-> FALSE]
    ELSE [data |-> <<>>, error |-> TRUE]

(* a call issued to the store: insert(values), update(values).eq(filter), delete().eq(filter) *)
Query(verb, table, values, filter) ==
    [verb |-> verb, table |-> table, values |-> values, filter |-> filter]

(* ------------------------------ rows ---------------------------------- *)

PollRowReversed(id, user, data) ==
    [id         |-> id,
     user_id    |-> user,
     question   |-> data.question,
     options    |-> [i \in 1..Len(data.options) |-> data.options[Len(data.options) + 1 - i]],
     created_at |-> id]

PollRow(id, user, data) ==
    [id         |-> id,
     user_id    |-> user,
     question   |-> data.question,
     options    |-> data.options,
     created_at |-> id]

VoteRowAnonymous(id, pollId, user, optionIndex) ==
    [id           |-> id,
     poll_id      |-> pollId,
     user_id      |-> Null,
     option_index |-> optionIndex]

VoteRow(id, pollId, user, optionIndex) ==
    [id           |-> id,
     poll_id      |-> pollId,
     user_id      |-> user,
     option_index |-> optionIndex]

UpdatePatchClearsOwner(data) ==
    [question |-> data.question, options |-> data.options, user_id |-> Null]

UpdatePatch(data) ==
    [question |-> data.question, options |-> data.options]

UpdateFilterIdOnly(pollId, user) ==
    [id |-> pollId]

UpdateFilter(pollId, user) ==
    [id |-> pollId, user_id |-> user]

DeleteFilter(id) ==
    [id |-> id]

(* ------------------------- record of the last call -------------------- *)

Call(op, caller, pollId, formData, optionIndex, fail, rls, result, queries, revalidated) ==
    [op |-> op, caller |-> caller, pollId |-> pollId, formData |-> formData,
     optionIndex |-> optionIndex, fail |-> fail, rls |-> rls,
     result |-> result, queries |-> queries, revalidated |-> revalidated]

NoCall ==
    Call("none", Null, 0, NoForm, 0, FALSE, FALSE, [error |-> NullErr], <<>>, <<>>)

Init ==
    /\ polls = {}
    /\ votes = {}
    /\ nextPollId = 1
    /\ nextVoteId = 1
    /\ accounts = {}
    /\ last = NoCall

(* ------------------------------ actions ------------------------------- *)

CreatePoll(caller, formData, fail) ==
    LET question   == formData.question
        options    == FilterBoolean(formData.options)
        validation == SafeParse(question, options)
        auth       == GetUser(caller)
        row        == PollRow(nextPollId, auth.user, validation.data)
        query      == Query("insert", "polls", row, <<>>)
        Return(result, queries, revalidated) ==
            last' = Call("createPoll", caller, 0, formData, 0, fail, FALSE,
                         result, queries, revalidated)
    IN  IF ~validation.success
        THEN /\ Return([error |-> ValidationError(validation)], <<>>, <<>>)
             /\ UNCHANGED <<polls, votes, nextPollId, nextVoteId, accounts>>
        ELSE IF NotLoggedIn(auth)
        THEN /\ Return([error |-> Err(<<"You must be logged in to create a poll.">>)], <<>>, <<>>)
             /\ UNCHANGED <<polls, votes, nextPollId, nextVoteId, accounts>>
        ELSE IF fail
        THEN /\ Return([error |-> Err(<<"Failed to create the poll. Please try again.">>)],
                       <<query>>, <<>>)
             /\ UNCHANGED <<polls, votes, nextPollId, nextVoteId, accounts>>
        ELSE /\ nextPollId <= MaxPolls
             /\ polls' = Insert(polls, row)
             /\ nextPollId' = nextPollId + 1
             /\ Return([error |-> NullErr], <<query>>, << <<"/polls">> >>)
             /\ UNCHANGED <<votes, nextVoteId, accounts>>

GetUserPolls(caller, fail) ==
    LET auth   == GetUser(caller)
        data   == OrderDesc(Select(polls, [user_id |-> auth.user]))
        Return(result) ==
            last' = Call("getUserPolls", caller, 0, NoForm, 0, fail, FALSE, result, <<>>, <<>>)
    IN  /\ IF auth.user = Null
           THEN Return([polls |-> <<>>, error |-> Err(<<"Not authenticated">>)])
           ELSE IF fail
           THEN Return([polls |-> <<>>, error |-> Err(<<"Failed to retrieve polls.">>)])
           ELSE Return([polls |-> data, error |-> NullErr])
        /\ UNCHANGED <<polls, votes, nextPollId, nextVoteId, accounts>>

(* the value getPollById(id) returns on the table *)
GetPollByIdResult(table, id, fail) ==
    LET found == Single(Select(table, [id |-> id]))
    IN  IF fail \/ found.error
        THEN [poll |-> <<>>, error |-> Err(<<"Poll not found.">>)]
        ELSE [poll |-> found.data, error |-> NullErr]

GetPollById(id, fail) ==
    /\ last' = Call("getPollById", Null, id, NoForm, 0, fail, FALSE,
                    GetPollByIdResult(polls, id, fail), <<>>, <<>>)
    /\ UNCHANGED <<polls, votes, nextPollId, nextVoteId, accounts>>

(* submitVote looking the poll up first *)
SubmitVoteChecked(caller, pollId, optionIndex, fail) ==
    LET auth  == GetUser(caller)
        row   == VoteRow(nextVoteId, pollId, auth.user, optionIndex)
        query == Query("insert", "votes", row, <<>>)
        Return(result, queries) ==
            last' = Call("submitVote", caller, pollId, NoForm, optionIndex, fail, FALSE,
                         result, queries, <<>>)
    IN  IF Select(polls, [id |-> pollId]) = {}
        THEN /\ Return([error |-> Err(<<"Poll not found.">>)], <<>>)
             /\ UNCHANGED <<polls, votes, nextPollId, nextVoteId, accounts>>
        ELSE IF fail
        THEN /\ Return([error |-> Err(<<"Failed to submit your vote. Please try again.">>)],
                       <<query>>)
             /\ UNCHANGED <<polls, votes, nextPollId, nextVoteId, accounts>>
        ELSE /\ nextVoteId <= MaxVotes
             /\ votes' = Insert(votes, row)
             /\ nextVoteId' = nextVoteId + 1
             /\ Return([error |-> NullErr], <<query>>)
             /\ UNCHANGED <<polls, nextPollId, accounts>>

SubmitVote(caller, pollId, optionIndex, fail) ==
    LET auth  == GetUser(caller)
        row   == VoteRow(nextVoteId, pollId, auth.user, optionIndex)
        query == Query("insert", "votes", row, <<>>)
        Return(result) ==
            last' = Call("submitVote", caller, pollId, NoForm, optionIndex, fail, FALSE,
                         result, <<query>>, <<>>)
    IN  IF fail
        THEN /\ Return([error |-> Err(<<"Failed to submit your vote. Please try again.">>)])
             /\ UNCHANGED <<polls, votes, nextPollId, nextVoteId, accounts>>
        ELSE /\ nextVoteId <= MaxVotes
             /\ votes' = Insert(votes, row)
             /\ nextVoteId' = nextVoteId + 1
             /\ Return([error |-> NullErr])
             /\ UNCHANGED <<polls, nextPollId, accounts>>

(* deletePoll revalidating before it looks at the store's answer *)
DeletePollAlwaysRevalidates(caller, id, fail, rls) ==
    LET auth   == GetUser(caller)
        filter == DeleteFilter(id)
        query  == Query("delete", "polls", <<>>, filter)
        Return(result, revalidated) ==
            last' = Call("deletePoll", caller, id, NoForm, 0, fail, rls,
                         result, <<query>>, revalidated)
    IN  IF fail
        THEN /\ Return([error |-> Err(<<"Failed to delete the poll. You may not have permission to perform this action.">>)],
                       << <<"/polls">> >>)
             /\ UNCHANGED <<polls, votes, nextPollId, nextVoteId, accounts>>
        ELSE /\ polls' = Delete(polls, filter, auth.user, rls)
             /\ Return([error |-> NullErr], << <<"/polls">> >>)
             /\ UNCHANGED <<votes, nextPollId, nextVoteId, accounts>>

(* deletePoll taking the poll's votes with it *)
DeletePollCascade(caller, id, fail, rls) ==
    LET auth   == GetUser(caller)
        filter == DeleteFilter(id)
        query  == Query("delete", "polls", <<>>, filter)
        Return(result, revalidated) ==
            last' = Call("deletePoll", caller, id, NoForm, 0, fail, rls,
                         result, <<query>>, revalidated)
    IN  IF fail
        THEN /\ Return([error |-> Err(<<"Failed to delete the poll. You may not have permission to perform this action.">>)],
                       <<>>)
             /\ UNCHANGED <<polls, votes, nextPollId, nextVoteId, accounts>>
        ELSE /\ polls' = Delete(polls, filter, auth.user, rls)
             /\ votes' = {v \in votes : \E r \in polls' : r.id = v.poll_id}
             /\ Return([error |-> NullErr], << <<"/polls">> >>)
             /\ UNCHANGED <<nextPollId, nextVoteId, accounts>>

DeletePoll(caller, id, fail, rls) ==
    LET auth   == GetUser(caller)
        filter == DeleteFilter(id)
        query  == Query("delete", "polls", <<>>, filter)
        Return(result, revalidated) ==
            last' = Call("deletePoll", caller, id, NoForm, 0, fail, rls,
                         result, <<query>>, revalidated)
    IN  IF fail
        THEN /\ Return([error |-> Err(<<"Failed to delete the poll. You may not have permission to perform this action.">>)],
                       <<>>)
             /\ UNCHANGED <<polls, votes, nextPollId, nextVoteId, accounts>>
        ELSE /\ polls' = Delete(polls, filter, auth.user, rls)
             /\ Return([error |-> NullErr], << <<"/polls">> >>)
             /\ UNCHANGED <<votes, nextPollId, nextVoteId, accounts>>

UpdatePoll(caller, pollId, formData, fail) ==
    LET question   == formData.question
        options    == FilterBoolean(formData.options)
        validation == SafeParse(question, options)
        auth       == GetUser(caller)
        patch      == UpdatePatch(validation.data)
        filter     == UpdateFilter(pollId, auth.user)
        query      == Query("update", "polls", patch, filter)
        Return(result, queries, revalidated) ==
            last' = Call("updatePoll", caller, pollId, formData, 0, fail, FALSE,
                         result, queries, revalidated)
    IN  IF ~validation.success
        THEN /\ Return([error |-> ValidationError(validation)], <<>>, <<>>)
             /\ UNCHANGED <<polls, votes, nextPollId, nextVoteId, accounts>>
        ELSE IF NotLoggedIn(auth)
        THEN /\ Return([error |-> Err(<<"You must be logged in to update a poll.">>)], <<>>, <<>>)
             /\ UNCHANGED <<polls, votes, nextPollId, nextVoteId, accounts>>
        ELSE IF fail
        THEN /\ Return([error |-> Err(<<"Failed to update the poll. You may not have permission.">>)],
                       <<query>>, <<>>)
             /\ UNCHANGED <<polls, votes, nextPollId, nextVoteId, accounts>>
        ELSE /\ polls' = Update(polls, patch, filter)
             /\ Return([error |-> NullErr], <<query>>,
                       << <<"/polls">>, <<"/polls/", pollId>> >>)
             /\ UNCHANGED <<votes, nextPollId, nextVoteId, accounts>>

(* the pending result is handed to the caller: return { ... } *)
Respond ==
    /\ last.op # "none"
    /\ last' = NoCall
    /\ UNCHANGED <<polls, votes, nextPollId, nextVoteId, accounts>>

(* the previous action has returned its result *)
Idle ==
    last.op = "none"

(* the five operations on the polls table *)
PollOps ==
    \/ Idle /\ \E caller \in Callers, formData \in FormDatas, fail \in BOOLEAN :
          CreatePoll(caller, formData, fail)
    \/ Idle /\ \E caller \in Callers, fail \in BOOLEAN :
          GetUserPolls(caller, fail)
    \/ Idle /\ \E id \in PollIds, fail \in BOOLEAN :
          GetPollById(id, fail)
    \/ Idle /\ \E caller \in Callers, id \in PollIds, fail \in BOOLEAN, rls \in BOOLEAN :
          DeletePoll(caller, id, fail, rls)
    \/ Idle /\ \E caller \in Callers, pollId \in PollIds, formData \in FormDatas,
                  fail \in BOOLEAN :
          UpdatePoll(caller, pollId, formData, fail)

VoteOps ==
    Idle /\ \E caller \in Callers, pollId \in PollIds, optionIndex \in OptionIndexes,
               fail \in BOOLEAN :
          SubmitVote(caller, pollId, optionIndex, fail)

Next ==
    \/ PollOps
    \/ VoteOps
    \/ Respond

(* all six server actions *)
Spec ==
    Init /\ [][Next]_vars

NextPolls ==
    \/ PollOps
    \/ Respond

(* the operations on the polls table alone: none of them reads or writes votes *)
SpecPolls ==
    Init /\ [][NextPolls]_vars

PlainForms ==
    { [question |-> Str("a"), options |-> <<Str("a"), Str("b")>>],
      [question |-> <<>>,     options |-> <<Str("a"), <<>>>>] }

(* the five operations on the polls table, with one valid and one invalid form *)
PlainPollOps ==
    \/ Idle /\ \E caller \in Callers, formData \in PlainForms, fail \in BOOLEAN :
          CreatePoll(caller, formData, fail)
    \/ Idle /\ \E caller \in Callers, fail \in BOOLEAN :
          GetUserPolls(caller, fail)
    \/ Idle /\ \E id \in PollIds, fail \in BOOLEAN :
          GetPollById(id, fail)
    \/ Idle /\ \E caller \in Callers, id \in PollIds, fail \in BOOLEAN, rls \in BOOLEAN :
          DeletePoll(caller, id, fail, rls)
    \/ Idle /\ \E caller \in Callers, pollId \in PollIds, formData \in PlainForms,
                  fail \in BOOLEAN :
          UpdatePoll(caller, pollId, formData, fail)

NextVotes ==
    \/ PlainPollOps
    \/ VoteOps
    \/ Respond

(* all six server actions, the polls written with the forms of PlainForms *)
SpecVotes ==
    Init /\ [][NextVotes]_vars

(* ================= login and register (auth-actions.ts) =============== *)

LowerCase ==
    {"a", "b", "c", "d", "e", "f", "g", "h", "i", "j", "k", "l", "m",
     "n", "o", "p", "q", "r", "s", "t", "u", "v", "w", "x", "y", "z"}

UpperCase ==
    {"A", "B", "C", "D", "E", "F", "G", "H", "I", "J", "K", "L", "M",
     "N", "O", "P", "Q", "R", "S", "T", "U", "V", "W", "X", "Y", "Z"}

Digits ==
    {"0", "1", "2", "3", "4", "5", "6", "7", "8", "9"}

Names ==
    { <<>>, <<"A">>, <<"A", "l">> }

Emails ==
    { <<"a", "@", "b", ".", "c", "o">>, <<"b", "@", "b", ".", "c", "o">>,
      <<"a", "@", "b">>, <<"a", "b">> }

Passwords ==
    { <<"A", "b", "c", "d", "1", "2", "3", "4">>,
      <<"A", "b", "c", "1", "2", "3", "4">>,
      <<"a", "b", "c", "d", "1", "2", "3", "4">>,
      <<"A", "B", "C", "D", "1", "2", "3", "4">>,
      <<"A", "b", "c", "d", "a", "b", "c", "d">>,
      <<>> }

(* string.min(n, message) *)
StringMin(s, n, message) ==
    IF Len(s) < n THEN <<message>> ELSE <<>>

(* string.regex(/[class]/, message): some character of the class occurs *)
StringRegex(s, class, message) ==
    IF \E i \in 1..Len(s) : s[i] \in class THEN <<>> ELSE <<message>>

(* z.string().email(): zod's pattern, local@label(.label)*.tld *)
IsEmail(s) ==
    LET alnum  == LowerCase \cup UpperCase \cup Digits
        ats    == {i \in 1..Len(s) : s[i] = "@"}
        at     == CHOOSE i \in ats : TRUE
        local  == SubSeq(s, 1, at - 1)
        domain == SubSeq(s, at + 1, Len(s))
        dots   == {i \in 1..Len(domain) : domain[i] = "."}
        tldAt  == CHOOSE i \in dots : \A j \in dots : j <= i
    IN  /\ Cardinality(ats) = 1
        /\ Len(local) >= 1
        /\ \A i \in 1..Len(local) : local[i] \in alnum \cup {"_", "'", "+", "-", "."}
        /\ local[1] # "."
        /\ local[Len(local)] \in alnum \cup {"_", "+", "-"}
        /\ \A i \in 1..(Len(s) - 1) : ~(s[i] = "." /\ s[i + 1] = ".")
        /\ dots # {}
        /\ Len(domain) - tldAt >= 2
        /\ \A i \in (tldAt + 1)..Len(domain) : domain[i] \in LowerCase \cup UpperCase
        /\ domain[1] \in alnum
        /\ \A i \in 1..Len(domain) : domain[i] \in alnum \cup {"-", "."}
        /\ \A i \in dots : domain[i + 1] \in alnum

StringEmail(s, message) ==
    IF IsEmail(s) THEN <<>> ELSE <<message>>

PasswordSchemaNoDigit(password) ==
    StringMin(password, 8, "Password must be at least 8 characters long")
        \o StringRegex(password, LowerCase, "Password must contain at least one lowercase letter")
        \o StringRegex(password, UpperCase, "Password must contain at least one uppercase letter")

PasswordSchema(password) ==
    StringMin(password, 8, "Password must be at least 8 characters long")
        \o StringRegex(password, LowerCase, "Password must contain at least one lowercase letter")
        \o StringRegex(password, UpperCase, "Password must contain at least one uppercase letter")
        \o StringRegex(password, Digits, "Password must contain at least one number")

(* register: schema.safeParse(data) *)
RegisterSchema(data) ==
    LET errors == StringMin(data.name, 2, "Name must be at least 2 characters long")
                    \o StringEmail(data.email, "Invalid email address")
                    \o PasswordSchema(data.password)
    IN  [success |-> errors = <<>>, errors |-> errors]

(* login: schema.safeParse(data) *)
LoginSchema(data) ==
    LET errors == StringEmail(data.email, "Invalid email address")
                    \o StringMin(data.password, 1, "Password is required")
    IN  [success |-> errors = <<>>, errors |-> errors]

(* validated.error.errors.map((e) => e.message).join('\n') *)
AuthValidationError(validated) ==
    Err(Join(validated.errors, "\n"))

(* supabase.auth.signUp: the error it reports, if any *)
SignUpError(email, fail) ==
    IF fail THEN Err(<<"Unexpected failure">>)
    ELSE IF \E a \in accounts : a.email = email THEN Err(<<"User already registered">>)
    ELSE NullErr

(* supabase.auth.signInWithPassword: the error it reports, if any *)
SignInError(email, password, fail) ==
    IF fail \/ ~\E a \in accounts : a.email = email /\ a.password = password
    THEN Err(<<"Invalid login credentials">>)
    ELSE NullErr

(* error.message.includes(text) *)
Includes(message, text) ==
    \E i \in 1..Len(message) : message[i] = text

AuthCall(op, data, fail, result, queries) ==
    [op |-> op, data |-> data, fail |-> fail, result |-> result, queries |-> queries]

Register(data, fail) ==
    LET validated == RegisterSchema(data)
        signUp    == [verb |-> "signUp", email |-> data.email, password |-> data.password,
                      name |-> data.name]
        error     == SignUpError(data.email, fail)
        Return(result, queries) ==
            last' = AuthCall("register", data, fail, result, queries)
    IN  IF ~validated.success
        THEN /\ Return([error |-> AuthValidationError(validated)], <<>>)
             /\ UNCHANGED <<polls, votes, nextPollId, nextVoteId, accounts>>
        ELSE IF error # NullErr
        THEN /\ IF Includes(error[1], "User already registered")
                THEN Return([error |-> Err(<<"A user with this email already exists.">>)],
                            <<signUp>>)
                ELSE Return([error |-> Err(<<"Failed to register user. Please try again.">>)],
                            <<signUp>>)
             /\ UNCHANGED <<polls, votes, nextPollId, nextVoteId, accounts>>
        ELSE /\ accounts' = accounts \cup {[email |-> data.email, password |-> data.password,
                                            name |-> data.name]}
             /\ Return([error |-> NullErr], <<signUp>>)
             /\ UNCHANGED <<polls, votes, nextPollId, nextVoteId>>

Login(data, fail) ==
    LET validated == LoginSchema(data)
        signIn    == [verb |-> "signInWithPassword", email |-> data.email,
                      password |-> data.password]
        Return(result, queries) ==
            last' = AuthCall("login", data, fail, result, queries)
    IN  /\ IF ~validated.success
           THEN Return([error |-> AuthValidationError(validated)], <<>>)
           ELSE IF SignInError(data.email, data.password, fail) # NullErr
           THEN Return([error |-> Err(<<"Invalid email or password.">>)], <<signIn>>)
           ELSE Return([error |-> NullErr], <<signIn>>)
        /\ UNCHANGED <<polls, votes, nextPollId, nextVoteId, accounts>>

AuthOps ==
    \/ Idle /\ \E data \in [name : Names, email : Emails, password : Passwords],
                  fail \in BOOLEAN :
          Register(data, fail)
    \/ Idle /\ \E data \in [email : Emails, password : Passwords], fail \in BOOLEAN :
          Login(data, fail)

NextAuth ==
    \/ AuthOps
    \/ Respond

(* login and register against the identity service *)
SpecAuth ==
    Init /\ [][NextAuth]_vars

(* ======================== properties of the claims ==================== *)

(* the string without its leading and trailing blanks *)
RECURSIVE Trim(_)
Trim(s) ==
    IF Len(s) = 0 THEN s
    ELSE IF s[1] = " " THEN Trim(Tail(s))
    ELSE IF s[Len(s)] = " " THEN Trim(SubSeq(s, 1, Len(s) - 1))
    ELSE s

IsPollWrite(op) ==
    op \in {"createPoll", "updatePoll"}

RECURSIVE NonEmptyEntries(_)
NonEmptyEntries(list) ==
    IF Len(list) = 0 THEN <<>>
    ELSE IF Len(list[1]) = 0 THEN NonEmptyEntries(Tail(list))
    ELSE <<list[1]>> \o NonEmptyEntries(Tail(list))

NonBlankCount(list) ==
    Cardinality({i \in 1..Len(list) : Trim(list[i]) # <<>>})

(* non-empty question and at least two non-empty options *)
ValidInput(formData) ==
    /\ Len(formData.question) >= 1
    /\ Len(NonEmptyEntries(formData.options)) >= 2

UnauthenticatedError(op) ==
    IF op = "createPoll"
    THEN Err(<<"You must be logged in to create a poll.">>)
    ELSE Err(<<"You must be logged in to update a poll.">>)

ValidationMessages ==
    {"Question cannot be empty.", "At least two options are required.",
     "String must contain at least 1 character(s)"}

IsInvalidInput(error) ==
    /\ error # NullErr
    /\ error[1][1] \in ValidationMessages

(* C1: an updatePoll issued by an authenticated caller B leaves every poll owned
   by a user other than B exactly as it was (question and options included),
   whatever the input and whatever happened before. *)
C1_UpdateByNonOwner ==
    [][(last'.op = "updatePoll" /\ last'.caller \in Users)
        => \A r \in polls : r.user_id # last'.caller => r \in polls']_vars

C1_Witness ==
    /\ last.op = "updatePoll"
    /\ last.caller \in Users
    /\ last.result.error = NullErr
    /\ \E r \in polls :
          /\ r.id = last.pollId
          /\ r.user_id \in Users \ {last.caller}
          /\ r.question # last.formData.question

(* C2: a deletePoll issued by anyone but the owner of a stored poll does not
   remove that poll, and the delete query itself carries the user_id check. *)
C2_OnlyOwnerDeletes ==
    [][last'.op = "deletePoll"
        => \A r \in polls :
              r.user_id # last'.caller
                 => /\ r \in polls'
                    /\ \A i \in 1..Len(last'.queries) :
                          "user_id" \in DOMAIN last'.queries[i].filter]_vars

(* C3 as stated: an unauthenticated createPoll or updatePoll returns the
   Unauthenticated error and issues no store call, for every input. *)
C3_UnauthenticatedAlways ==
    (IsPollWrite(last.op) /\ last.caller = Null)
        => /\ last.result.error = UnauthenticatedError(last.op)
           /\ last.queries = <<>>

(* C3 amended: an unauthenticated createPoll or updatePoll issues no store call
   and returns a non-null error: the Unauthenticated error when the input passes
   validation, a validation error otherwise. *)
C3_UnauthenticatedNoWrite ==
    (IsPollWrite(last.op) /\ last.caller = Null)
        => /\ last.queries = <<>>
           /\ IF ValidInput(last.formData)
              THEN last.result.error = UnauthenticatedError(last.op)
              ELSE IsInvalidInput(last.result.error)

C3_Witness ==
    /\ IsPollWrite(last.op)
    /\ last.caller = Null
    /\ ValidInput(last.formData)
    /\ last.result.error = UnauthenticatedError(last.op)
    /\ polls # {}

(* C4: createPoll and updatePoll, called by a signed-in user, answer every option
   list with fewer than two non-blank entries with an InvalidInput error and
   issue no store call. *)
C4_FewNonBlankOptionsRejected ==
    (IsPollWrite(last.op) /\ last.caller \in Users
        /\ NonBlankCount(last.formData.options) < 2)
        => /\ IsInvalidInput(last.result.error)
           /\ last.queries = <<>>

(* C5: createPoll and updatePoll, called by a signed-in user, answer every
   question that is empty after trimming with the error 'Question cannot be
   empty.' and issue no store call. *)
C5_BlankQuestionRejected ==
    (IsPollWrite(last.op) /\ last.caller \in Users
        /\ Trim(last.formData.question) = <<>>)
        => /\ last.result.error # NullErr
           /\ last.result.error[1][1] = "Question cannot be empty."
           /\ last.queries = <<>>

(* C6: every vote is inserted with an option index inside [0, len(options)) of
   the poll it references, as that poll stands when the vote is inserted. *)
C6_VoteIndexInRange ==
    [][\A v \in votes' \ votes :
          \A r \in polls :
             r.id = v.poll_id
                => /\ 0 <= v.option_index
                   /\ v.option_index < Len(r.options)]_vars

(* C7: a poll gets its owner from the createPoll that inserts it (the caller),
   and no later operation changes that owner while the poll exists. *)
C7_OwnerSetOnce ==
    [][\A r2 \in polls' :
          IF \E r \in polls : r.id = r2.id
          THEN \A r \in polls : r.id = r2.id => r2.user_id = r.user_id
          ELSE last'.op = "createPoll" /\ r2.user_id = last'.caller]_vars

C7_Witness ==
    /\ last.op = "updatePoll"
    /\ last.result.error = NullErr
    /\ votes # {}
    /\ \E r \in polls :
          /\ r.id = last.pollId
          /\ r.user_id = last.caller
          /\ r.question = last.formData.question
          /\ r.question = Str(" ")

(* C8: createPoll by an authenticated caller U with a valid input and no store
   failure returns {error: null} and adds exactly one poll, with a fresh id,
   owner U, the submitted question and the submitted non-empty options in their
   order; getPollById of that id then returns that poll. *)
C8_CreateRoundTrip ==
    [][(/\ last'.op = "createPoll"
        /\ last'.caller \in Users
        /\ ~last'.fail
        /\ ValidInput(last'.formData))
        => /\ last'.result.error = NullErr
           /\ \E r \in polls' :
                 /\ polls' = polls \cup {r}
                 /\ \A o \in polls : o.id # r.id
                 /\ r.user_id = last'.caller
                 /\ r.question = last'.formData.question
                 /\ r.options = NonEmptyEntries(last'.formData.options)
                 /\ GetPollByIdResult(polls', r.id, FALSE)
                        = [poll |-> <<r>>, error |-> NullErr]]_vars

C8_Witness ==
    /\ last.op = "createPoll"
    /\ last.caller \in Users
    /\ last.result.error = NullErr
    /\ Cardinality(polls) = 2
    /\ \E r \in polls :
          /\ r.id = nextPollId - 1
          /\ r.user_id = last.caller
          /\ r.options = <<Str("a"), Str("b")>>
          /\ r.options = last.formData.options

(* C9: getUserPolls by an authenticated user U, with no store failure, returns
   error null and exactly the stored polls owned by U, each once, newest first. *)
C9_GetUserPolls ==
    (last.op = "getUserPolls" /\ last.caller \in Users /\ ~last.fail)
        => LET ps == last.result.polls
           IN  /\ last.result.error = NullErr
               /\ {ps[i] : i \in 1..Len(ps)} = {r \in polls : r.user_id = last.caller}
               /\ \A i, j \in 1..Len(ps) : i < j => ps[i].created_at > ps[j].created_at

C9_Witness ==
    /\ last.op = "getUserPolls"
    /\ last.result.error = NullErr
    /\ Len(last.result.polls) = 2

(* C10: submitVote needs no session: with no store failure it returns
   {error: null} and the vote it inserts carries the caller's user id, null for
   a caller with no session. *)
C10_VoterId ==
    (last.op = "submitVote" /\ ~last.fail)
        => /\ last.result.error = NullErr
           /\ \E v \in votes :
                 /\ v.id = nextVoteId - 1
                 /\ v.poll_id = last.pollId
                 /\ v.option_index = last.optionIndex
                 /\ v.user_id = last.caller

C10_Witness ==
    /\ last.op = "submitVote"
    /\ last.caller = Null
    /\ last.result.error = NullErr
    /\ \E v \in votes : v.user_id = Null

(* C11: getPollById always returns a result: {poll: null, error: 'Poll not
   found.'} when no poll has the id and likewise when the store fails, and
   otherwise the stored poll together with error null. *)
C11_GetPollById ==
    last.op = "getPollById"
        => LET found == {r \in polls : r.id = last.pollId}
           IN  /\ (found = {} \/ last.fail)
                     => last.result = [poll |-> <<>>, error |-> Err(<<"Poll not found.">>)]
               /\ (found # {} /\ ~last.fail)
                     => /\ last.result.error = NullErr
                        /\ Len(last.result.poll) = 1
                        /\ last.result.poll[1] \in found
               /\ last.result.poll # <<>> => last.result.error = NullErr

C11_Witness ==
    /\ last.op = "getPollById"
    /\ ~last.fail
    /\ polls # {}
    /\ \A r \in polls : r.id # last.pollId
    /\ last.result = [poll |-> <<>>, error |-> Err(<<"Poll not found.">>)]

(* C12: register answers every registration whose password is shorter than 8
   characters or lacks a lowercase letter, an uppercase letter or a digit, whose
   name is shorter than 2 characters or whose email is malformed with a non-null
   error and without calling signUp; no account holds such data. *)
WeakPassword(password) ==
    \/ Len(password) < 8
    \/ {password[i] : i \in 1..Len(password)} \cap LowerCase = {}
    \/ {password[i] : i \in 1..Len(password)} \cap UpperCase = {}
    \/ {password[i] : i \in 1..Len(password)} \cap Digits = {}

InvalidRegistration(data) ==
    WeakPassword(data.password) \/ Len(data.name) < 2 \/ ~IsEmail(data.email)

C12_RegisterRejects ==
    /\ (last.op = "register" /\ InvalidRegistration(last.data))
          => /\ last.result.error # NullErr
             /\ last.queries = <<>>
    /\ \A a \in accounts : ~InvalidRegistration(a)

C12_Witness ==
    /\ last.op = "register"
    /\ WeakPassword(last.data.password)
    /\ Len(last.data.password) = 8
    /\ Len(last.data.name) >= 2
    /\ IsEmail(last.data.email)
    /\ last.result.error # NullErr
    /\ last.queries = <<>>
    /\ accounts # {}

(* the messages of the violated rules, in rule order *)
PollRuleMessages(formData) ==
    (IF Len(formData.question) = 0 THEN <<"Question cannot be empty.">> ELSE <<>>)
        \o (IF Len(NonEmptyEntries(formData.options)) < 2
            THEN <<"At least two options are required.">> ELSE <<>>)

PasswordRuleMessages(password) ==
    LET chars == {password[i] : i \in 1..Len(password)}
    IN  (IF Len(password) < 8
         THEN <<"Password must be at least 8 characters long">> ELSE <<>>)
        \o (IF chars \cap LowerCase = {}
            THEN <<"Password must contain at least one lowercase letter">> ELSE <<>>)
        \o (IF chars \cap UpperCase = {}
            THEN <<"Password must contain at least one uppercase letter">> ELSE <<>>)
        \o (IF chars \cap Digits = {}
            THEN <<"Password must contain at least one number">> ELSE <<>>)

RegisterRuleMessages(data) ==
    (IF Len(data.name) < 2 THEN <<"Name must be at least 2 characters long">> ELSE <<>>)
        \o (IF IsEmail(data.email) THEN <<>> ELSE <<"Invalid email address">>)
        \o PasswordRuleMessages(data.password)

LoginRuleMessages(data) ==
    (IF IsEmail(data.email) THEN <<>> ELSE <<"Invalid email address">>)
        \o (IF Len(data.password) = 0 THEN <<"Password is required">> ELSE <<>>)

RuleMessages ==
    IF IsPollWrite(last.op) THEN PollRuleMessages(last.formData)
    ELSE IF last.op = "register" THEN RegisterRuleMessages(last.data)
    ELSE IF last.op = "login" THEN LoginRuleMessages(last.data)
    ELSE <<>>

RECURSIVE Interleave(_, _)
Interleave(msgs, sep) ==
    IF Len(msgs) <= 1 THEN msgs
    ELSE <<msgs[1], sep>> \o Interleave(Tail(msgs), sep)

(* C13: when validation fails in createPoll, updatePoll, login or register, the
   returned error is the messages of the violated rules, in rule order, with a
   newline character between consecutive messages. *)
C13_NewlineJoined ==
    RuleMessages # <<>> => last.result.error = Err(Interleave(RuleMessages, "\n"))

(* the same with the two characters backslash and n as the separator *)
C13_BackslashNJoined ==
    RuleMessages # <<>> => last.result.error = Err(Interleave(RuleMessages, "\\n"))

(* C14: deletePoll and submitVote on the same poll run in either order, and
   absent a store failure each returns {error: null}: the delete removes its
   caller's poll and leaves the votes alone, whether or not votes reference the
   poll, and the vote is inserted whether or not the poll exists. *)
C14_DeleteVoteRace ==
    [][/\ (last'.op = "deletePoll" /\ ~last'.fail)
            => /\ last'.result.error = NullErr
               /\ votes' = votes
               /\ \A r \in polls :
                     (r.id = last'.pollId /\ r.user_id = last'.caller) => r \notin polls'
       /\ (last'.op = "submitVote" /\ ~last'.fail)
            => /\ last'.result.error = NullErr
               /\ polls' = polls
               /\ \E v \in votes' \ votes : v.poll_id = last'.pollId]_vars

(* a stored vote references a poll that a later deletePoll has removed *)
C14_OrphanedVote ==
    /\ last.op = "deletePoll"
    /\ last.caller \in Users
    /\ last.result.error = NullErr
    /\ last.pollId < nextPollId
    /\ \A r \in polls : r.id # last.pollId
    /\ \E v \in votes : v.poll_id = last.pollId

(* C15: votes are append-only: no step removes or changes a stored vote, and
   the votes table grows only by a submitVote that returns {error: null}, by
   exactly one row per such call. *)
C15_VotesAppendOnly ==
    [][/\ votes \subseteq votes'
       /\ votes' # votes => last'.op = "submitVote"
       /\ last'.op = "submitVote"
            => Cardinality(votes' \ votes)
                  = (IF last'.result.error = NullErr THEN 1 ELSE 0)]_vars

C15_Witness ==
    /\ last.op \in {"deletePoll", "updatePoll", "createPoll"}
    /\ last.result.error = NullErr
    /\ polls # {}
    /\ \E v \in votes : v.poll_id = last.pollId

(* C16: an updatePoll with a valid input by a signed-in caller who owns no
   poll of that id (someone else's poll, or no poll at all) changes no row and
   returns {error: null}, and revalidates the list path and the poll's path,
   as an owner's update does. *)
C16_UpdateZeroRows ==
    [][(/\ last'.op = "updatePoll"
        /\ last'.caller \in Users
        /\ ValidInput(last'.formData)
        /\ ~last'.fail
        /\ ~\E r \in polls : r.id = last'.pollId /\ r.user_id = last'.caller)
        => /\ polls' = polls
           /\ last'.result = [error |-> NullErr]
           /\ last'.revalidated = << <<"/polls">>, <<"/polls/", last'.pollId>> >>]_vars

C16_Witness ==
    /\ last.op = "updatePoll"
    /\ last.caller \in Users
    /\ last.result.error = NullErr
    /\ last.revalidated = << <<"/polls">>, <<"/polls/", last.pollId>> >>
    /\ polls # {}
    /\ \A r \in polls : r.id # last.pollId

(* C17: paths are revalidated exactly when createPoll, updatePoll or deletePoll
   returns {error: null}, after its store call came back without error:
   createPoll and deletePoll revalidate the list path, updatePoll the list path
   and the poll's path; a call that returns an error, and getUserPolls,
   getPollById and submitVote, revalidate nothing. *)
C17_Revalidation ==
    /\ last.revalidated =
          (IF last.result.error # NullErr THEN <<>>
           ELSE IF last.op \in {"createPoll", "deletePoll"} THEN << <<"/polls">> >>
           ELSE IF last.op = "updatePoll"
           THEN << <<"/polls">>, <<"/polls/", last.pollId>> >>
           ELSE <<>>)
    /\ last.revalidated # <<>> => (~last.fail /\ Len(last.queries) = 1)

C17_Witness ==
    /\ last.op = "updatePoll"
    /\ last.revalidated = << <<"/polls">>, <<"/polls/", last.pollId>> >>
    /\ votes # {}
    /\ \E r \in polls : r.id = last.pollId /\ r.user_id = last.caller

====
